---------------------------- MODULE Spec2Model ----------------------------
(***************************************************************************)
(* Model of the asset planner (src/asset_planner.py, src/utils.py,         *)
(* src/visualizations.py): main() loads the persisted configuration,       *)
(* reads the sidebar inputs, converts them (transform_input_data), builds  *)
(* the month-by-month ledger (run_simulation, add_date_columns) and        *)
(* derives the yearly tables and the progress figures (visualize_data).    *)
(*                                                                         *)
(* Number representations                                                  *)
(*   - an amount entered in man-yen is a float; it is held as an integer   *)
(*     count of 1/ManScale man;                                            *)
(*   - a slider percentage is held as an integer count of 1/PctScale       *)
(*     percent, an annual rate as an integer count of 1/RateScale;         *)
(*   - a cell of the DataFrame is a float; it is held exactly, as          *)
(*     n / RateBase^e with n an integer of unbounded size (a sign and a    *)
(*     sequence of base-RateBase digits), so that twelve and more monthly  *)
(*     multiplications by (1 + rate/12) stay exact. e = -1 is NaN, the     *)
(*     value of a cell that was never assigned.                            *)
(* Column names: stock = 株式, bond = 債券, savings = 預金, total = 総資産,  *)
(* contrib = 積立合計, gain = 運用益, date = 日付, ym = 年月.               *)
(***************************************************************************)
EXTENDS Integers, Sequences, FiniteSets, TLC

\* ------------------------------------------------------------------------
\* Number representations
\* ------------------------------------------------------------------------

\* slider percentages are counted in 1/PctScale percent (savings slider step 0.01)
PctScale == 100
\* annual rates (percentage / 100) are counted in 1/RateScale
RateScale == 10000
\* months per year: the 12 of rate/12, years * 12, iloc[::12] and index // 12
MonthsPerYear == 12
\* the denominator of a monthly rate: rate/12 = rateUnits / RateBase
RateBase == MonthsPerYear * RateScale
\* amounts entered in man-yen are counted in 1/ManScale man
ManScale == 100000

\* the longest horizon the model explores, in years (the slider allows 1..50)
MaxYears == 2

\* ------------------------------------------------------------------------
\* Exact arithmetic standing for Python's float arithmetic
\* ------------------------------------------------------------------------

\* A magnitude is a natural number of unbounded size: its digits in base
\* RateBase, least significant first, no leading zero digit; zero is <<>>.
\* HalfDigit splits a digit so that digit products stay below 2^31.
HalfDigit == 10000

RECURSIVE MagOfNat(_)
MagOfNat(k) ==
    IF k = 0 THEN <<>> ELSE <<k % RateBase>> \o MagOfNat(k \div RateBase)

RECURSIVE MagAdd(_, _, _)
MagAdd(a, b, carry) ==
    IF a = <<>> /\ b = <<>>
    THEN IF carry = 0 THEN <<>> ELSE <<carry>>
    ELSE IF b = <<>> /\ carry = 0 THEN a
    ELSE IF a = <<>> /\ carry = 0 THEN b
    ELSE LET x == IF a = <<>> THEN 0 ELSE Head(a)
             y == IF b = <<>> THEN 0 ELSE Head(b)
             s == x + y + carry
             ta == IF a = <<>> THEN <<>> ELSE Tail(a)
             tb == IF b = <<>> THEN <<>> ELSE Tail(b)
         IN  <<s % RateBase>> \o MagAdd(ta, tb, s \div RateBase)

RECURSIVE MagTrim(_)
MagTrim(a) ==
    IF a = <<>> THEN <<>>
    ELSE IF a[Len(a)] = 0 THEN MagTrim(SubSeq(a, 1, Len(a) - 1)) ELSE a

\* a - b - borrow for a >= b + borrow, leading zeros not yet trimmed
RECURSIVE MagSubRaw(_, _, _)
MagSubRaw(a, b, borrow) ==
    IF a = <<>> THEN <<>>
    ELSE IF b = <<>> /\ borrow = 0 THEN a
    ELSE LET y == IF b = <<>> THEN 0 ELSE Head(b)
             d == Head(a) - y - borrow
             tb == IF b = <<>> THEN <<>> ELSE Tail(b)
         IN  IF d < 0
             THEN <<d + RateBase>> \o MagSubRaw(Tail(a), tb, 1)
             ELSE <<d>> \o MagSubRaw(Tail(a), tb, 0)

MagSub(a, b) == MagTrim(MagSubRaw(a, b, 0))

\* -1, 0, 1 as a < b, a = b, a > b
RECURSIVE MagCmp(_, _)
MagCmp(a, b) ==
    IF Len(a) # Len(b) THEN (IF Len(a) < Len(b) THEN -1 ELSE 1)
    ELSE IF a = <<>> THEN 0
    ELSE IF a[Len(a)] # b[Len(b)]
         THEN (IF a[Len(a)] < b[Len(b)] THEN -1 ELSE 1)
         ELSE MagCmp(SubSeq(a, 1, Len(a) - 1), SubSeq(b, 1, Len(b) - 1))

\* a * k + carry for 0 < k <= HalfDigit
RECURSIVE MagMulSmall(_, _, _)
MagMulSmall(a, k, carry) ==
    IF a = <<>> THEN MagOfNat(carry)
    ELSE LET p == Head(a) * k + carry
         IN  <<p % RateBase>> \o MagMulSmall(Tail(a), k, p \div RateBase)

\* a * d for one digit d
MagMulDigit(a, d) ==
    LET hi == d \div HalfDigit
        lo == d % HalfDigit
        byHi == IF hi = 0 THEN <<>>
                ELSE MagMulSmall(MagMulSmall(a, hi, 0), HalfDigit, 0)
        byLo == IF lo = 0 THEN <<>> ELSE MagMulSmall(a, lo, 0)
    IN  MagAdd(byHi, byLo, 0)

\* a * RateBase^k
MagShift(a, k) == IF a = <<>> \/ k = 0 THEN a ELSE [i \in 1..k |-> 0] \o a

\* a * b, one digit of b at a time
RECURSIVE MagMulBy(_, _)
MagMulBy(a, b) ==
    IF a = <<>> \/ b = <<>> THEN <<>>
    ELSE MagAdd(MagMulDigit(a, Head(b)), MagShift(MagMulBy(a, Tail(b)), 1), 0)

MagMul(a, b) == IF Len(b) <= Len(a) THEN MagMulBy(a, b) ELSE MagMulBy(b, a)

\* integers of unbounded size: a sign and a magnitude
ZOf(k) == [neg |-> k < 0, mag |-> MagOfNat(IF k < 0 THEN -k ELSE k)]

ZNeg(a) == [neg |-> (a.mag # <<>>) /\ ~a.neg, mag |-> a.mag]

ZAdd(a, b) ==
    IF a.neg = b.neg THEN [neg |-> a.neg, mag |-> MagAdd(a.mag, b.mag, 0)]
    ELSE LET c == MagCmp(a.mag, b.mag)
         IN  IF c = 0 THEN [neg |-> FALSE, mag |-> <<>>]
             ELSE IF c > 0 THEN [neg |-> a.neg, mag |-> MagSub(a.mag, b.mag)]
             ELSE [neg |-> b.neg, mag |-> MagSub(b.mag, a.mag)]

ZMul(a, b) ==
    LET m == MagMul(a.mag, b.mag)
    IN  [neg |-> (m # <<>>) /\ (a.neg # b.neg), mag |-> m]

\* -1, 0, 1 as a < b, a = b, a > b
ZCmp(a, b) ==
    IF a.neg # b.neg THEN (IF a.neg THEN -1 ELSE 1)
    ELSE IF a.neg THEN MagCmp(b.mag, a.mag) ELSE MagCmp(a.mag, b.mag)

\* n * RateBase^k
ZScale(n, k) == [neg |-> n.neg, mag |-> MagShift(n.mag, k)]

\* a float: n / RateBase^e; e = -1 is NaN
NaN == [n |-> ZOf(0), e |-> -1]
IsNaN(x) == x.e < 0
FOf(k) == [n |-> ZOf(k), e |-> 0]

FAdd(a, b) ==
    IF IsNaN(a) \/ IsNaN(b) THEN NaN
    ELSE LET e == IF a.e > b.e THEN a.e ELSE b.e
         IN  [n |-> ZAdd(ZScale(a.n, e - a.e), ZScale(b.n, e - b.e)), e |-> e]

FSub(a, b) ==
    IF IsNaN(a) \/ IsNaN(b) THEN NaN
    ELSE FAdd(a, [n |-> ZNeg(b.n), e |-> b.e])

FMul(a, b) ==
    IF IsNaN(a) \/ IsNaN(b) THEN NaN
    ELSE [n |-> ZMul(a.n, b.n), e |-> a.e + b.e]

\* -1, 0, 1 as a < b, a = b, a > b (neither is NaN)
FCmp(a, b) ==
    LET e == IF a.e > b.e THEN a.e ELSE b.e
    IN  ZCmp(ZScale(a.n, e - a.e), ZScale(b.n, e - b.e))

\* Python's comparisons: any comparison with NaN is False
FGe(a, b) == ~IsNaN(a) /\ ~IsNaN(b) /\ FCmp(a, b) >= 0

\* a / b where b is a numpy float64 (a cell of the DataFrame): the quotient is
\* kept as the pair; numpy does not raise on b = 0 but returns inf, -inf or nan
FDiv(a, b) == [num |-> a, den |-> b]
IsInf(q) == ~IsNaN(q.num) /\ ~IsNaN(q.den) /\ FCmp(q.den, FOf(0)) = 0
                /\ FCmp(q.num, FOf(0)) # 0
IsNaNQ(q) == IsNaN(q.num) \/ IsNaN(q.den)
                \/ (FCmp(q.den, FOf(0)) = 0 /\ FCmp(q.num, FOf(0)) = 0)
IsFinite(q) == ~IsInf(q) /\ ~IsNaNQ(q)

\* ------------------------------------------------------------------------
\* utils.py
\* ------------------------------------------------------------------------

\* yen per man-yen
YenPerMan == 10000

\* int(value * 10000): int() truncates toward zero
convert_to_yen(value) ==
    LET unitsPerYen == ManScale \div YenPerMan
    IN  IF value >= 0 THEN value \div unitsPerYen ELSE -((-value) \div unitsPerYen)

ConfigKeys ==
    {"years", "monthly_stock_man", "monthly_bond_man", "monthly_savings_man",
     "stock_return_percent", "bond_return_percent", "savings_return_percent",
     "initial_stock_man", "initial_bond_man", "initial_savings_man",
     "current_stock_man", "current_bond_man", "current_savings_man"}

\* a JSON document: a dict (its items) or something that is not a dict
EmptyItems == [k \in {} |-> 0]
JsonDict(items) == [type |-> "dict", items |-> items]
JsonList == [type |-> "list", items |-> EmptyItems]

\* load_config(config_path): the value returned and whether st.warning ran
load_config(file) ==
    IF file.kind = "absent"
    THEN [ret |-> JsonDict(EmptyItems), warned |-> FALSE]
    ELSE IF file.kind \in {"unreadable", "not_json"}
         THEN [ret |-> JsonDict(EmptyItems), warned |-> TRUE]
         ELSE [ret |-> file.doc, warned |-> FALSE]

\* save_config(config_path, config): the file after json.dump
save_config(config) == [kind |-> "json", doc |-> JsonDict(config)]

\* ------------------------------------------------------------------------
\* asset_planner.py: get_user_inputs
\* ------------------------------------------------------------------------

\* saved_config.get(key, default) on a dict
Get(saved_config, key, default) ==
    IF key \in DOMAIN saved_config.items THEN saved_config.items[key] ELSE default

\* what the widgets hold when the user touches nothing: the saved value, or
\* the built-in default (30 years; 3.0/1.0/1.0 man; 5.0/1.0/0.1 percent; 0.0)
WidgetDefaults(saved_config) ==
    [years |-> Get(saved_config, "years", 30),
     monthly_stock_man |-> Get(saved_config, "monthly_stock_man", 3 * ManScale),
     monthly_bond_man |-> Get(saved_config, "monthly_bond_man", 1 * ManScale),
     monthly_savings_man |-> Get(saved_config, "monthly_savings_man", 1 * ManScale),
     stock_return_percent |-> Get(saved_config, "stock_return_percent", 5 * PctScale),
     bond_return_percent |-> Get(saved_config, "bond_return_percent", 1 * PctScale),
     savings_return_percent |->
         Get(saved_config, "savings_return_percent", PctScale \div 10),
     initial_stock_man |-> Get(saved_config, "initial_stock_man", 0),
     initial_bond_man |-> Get(saved_config, "initial_bond_man", 0),
     initial_savings_man |-> Get(saved_config, "initial_savings_man", 0),
     current_stock_man |-> Get(saved_config, "current_stock_man", 0),
     current_bond_man |-> Get(saved_config, "current_bond_man", 0),
     current_savings_man |-> Get(saved_config, "current_savings_man", 0)]

\* value <= hi man, for a value counted in 1/ManScale man
AtMostMan(value, hi) ==
    \/ value \div ManScale < hi
    \/ (value \div ManScale = hi /\ value % ManScale = 0)

\* the ranges the widgets enforce on what the user can set
WidgetRange(w) ==
    /\ w.years \in 1..50
    /\ \A k \in {"monthly_stock_man", "monthly_bond_man", "monthly_savings_man"} :
          w[k] >= 0 /\ AtMostMan(w[k], 100)
    /\ w.stock_return_percent >= -5 * PctScale
    /\ w.stock_return_percent <= 20 * PctScale
    /\ w.bond_return_percent >= -3 * PctScale
    /\ w.bond_return_percent <= 10 * PctScale
    /\ w.savings_return_percent >= 0
    /\ w.savings_return_percent <= 5 * PctScale
    /\ \A k \in {"initial_stock_man", "initial_bond_man", "initial_savings_man"} :
          w[k] >= 0 /\ AtMostMan(w[k], 10000)
    /\ \A k \in {"current_stock_man", "current_bond_man", "current_savings_man"} :
          w[k] >= 0 /\ AtMostMan(w[k], 100000)

\* the widget settings the model lets the user choose among
UserChoices ==
    [years : 1..MaxYears,
     monthly_stock_man : {0, 3 * ManScale},
     monthly_bond_man : {0, (4 * ManScale) \div 10 + 5},
     monthly_savings_man : {0},
     stock_return_percent : {-5 * PctScale, 0, 5 * PctScale},
     bond_return_percent : {1 * PctScale},
     savings_return_percent : {PctScale \div 10},
     initial_stock_man : {0, 100 * ManScale},
     initial_bond_man : {0},
     initial_savings_man : {0},
     current_stock_man : {0, 50 * ManScale, 100 * ManScale + ManScale \div 100},
     current_bond_man : {0},
     current_savings_man : {0}]

\* slider value (percent) / 100, in rate units
PercentToRate(pct) == (pct * RateScale) \div (PctScale * 100)
\* rate * 100, in percent units
RateToPercent(rate) == (rate * PctScale * 100) \div RateScale

\* the inputs dict built from the widgets' values
InputsOf(w) ==
    [years |-> w.years,
     monthly_stock_man |-> w.monthly_stock_man,
     monthly_bond_man |-> w.monthly_bond_man,
     monthly_savings_man |-> w.monthly_savings_man,
     stock_return |-> PercentToRate(w.stock_return_percent),
     bond_return |-> PercentToRate(w.bond_return_percent),
     savings_return |-> PercentToRate(w.savings_return_percent),
     initial_stock_man |-> w.initial_stock_man,
     initial_bond_man |-> w.initial_bond_man,
     initial_savings_man |-> w.initial_savings_man,
     current_stock_man |-> w.current_stock_man,
     current_bond_man |-> w.current_bond_man,
     current_savings_man |-> w.current_savings_man]

\* the config dict written when the save button is pressed
ConfigOf(inputs) ==
    [k \in ConfigKeys |->
        CASE k = "stock_return_percent" -> RateToPercent(inputs.stock_return)
          [] k = "bond_return_percent" -> RateToPercent(inputs.bond_return)
          [] k = "savings_return_percent" -> RateToPercent(inputs.savings_return)
          [] OTHER -> inputs[k]]

\* ------------------------------------------------------------------------
\* asset_planner.py: transform_input_data
\* ------------------------------------------------------------------------

transform_input_data(inputs) ==
    LET monthly_stock == convert_to_yen(inputs.monthly_stock_man)
        monthly_bond == convert_to_yen(inputs.monthly_bond_man)
        monthly_savings == convert_to_yen(inputs.monthly_savings_man)
        initial_stock == convert_to_yen(inputs.initial_stock_man)
        initial_bond == convert_to_yen(inputs.initial_bond_man)
        initial_savings == convert_to_yen(inputs.initial_savings_man)
        current_stock == convert_to_yen(inputs.current_stock_man)
        current_bond == convert_to_yen(inputs.current_bond_man)
        current_savings == convert_to_yen(inputs.current_savings_man)
    IN  [monthly_stock |-> monthly_stock,
         monthly_bond |-> monthly_bond,
         monthly_savings |-> monthly_savings,
         initial_stock |-> initial_stock,
         initial_bond |-> initial_bond,
         initial_savings |-> initial_savings,
         current_stock |-> current_stock,
         current_bond |-> current_bond,
         current_savings |-> current_savings,
         years |-> inputs.years,
         stock_return |-> inputs.stock_return,
         bond_return |-> inputs.bond_return,
         savings_return |-> inputs.savings_return,
         current_total_assets |-> current_stock + current_bond + current_savings,
         initial_total |-> initial_stock + initial_bond + initial_savings]

\* ------------------------------------------------------------------------
\* asset_planner.py: run_simulation, add_date_columns
\* ------------------------------------------------------------------------

\* faulty variant of MonthlyFactor: (1 - rate/12)
MonthlyFactorSubtracts(rate) == FSub(FOf(1), [n |-> ZOf(rate), e |-> 1])

\* (1 + rate/12)
MonthlyFactor(rate) == FAdd(FOf(1), [n |-> ZOf(rate), e |-> 1])

\* faulty variant of Grow: the contribution is added before the growth is applied
GrowContributionFirst(prev, rate, monthly) ==
    FMul(FAdd(prev, FOf(monthly)), MonthlyFactor(rate))

\* df.loc[i-1, c] * (1 + rate/12) + monthly
Grow(prev, rate, monthly) == FAdd(FMul(prev, MonthlyFactor(rate)), FOf(monthly))

\* pd.DataFrame(index=range(months + 1)): every cell of a column is NaN until
\* it is assigned
EmptyFrame(months) ==
    [i \in 0..months |->
        [stock |-> NaN, bond |-> NaN, savings |-> NaN, total |-> NaN, contrib |-> NaN]]

\* faulty variant of InitialRow: the first contribution is already booked in row 0
InitialRowWithContribution(data) ==
    [stock |-> FOf(data.initial_stock + data.monthly_stock),
     bond |-> FOf(data.initial_bond + data.monthly_bond),
     savings |-> FOf(data.initial_savings + data.monthly_savings),
     total |-> FOf(data.initial_stock + data.initial_bond + data.initial_savings
                   + data.monthly_stock + data.monthly_bond + data.monthly_savings),
     contrib |-> FOf(data.monthly_stock + data.monthly_bond + data.monthly_savings)]

\* the assignments to row 0
InitialRow(data) ==
    [stock |-> FOf(data.initial_stock),
     bond |-> FOf(data.initial_bond),
     savings |-> FOf(data.initial_savings),
     total |-> FOf(data.initial_stock + data.initial_bond + data.initial_savings),
     contrib |-> FOf(0)]

\* faulty variant of NextRow: the bond contribution is left out of 積立合計
NextRowContribOmitsBond(prev, data) ==
    LET stock == Grow(prev.stock, data.stock_return, data.monthly_stock)
        bond == Grow(prev.bond, data.bond_return, data.monthly_bond)
        savings == Grow(prev.savings, data.savings_return, data.monthly_savings)
    IN  [stock |-> stock,
         bond |-> bond,
         savings |-> savings,
         total |-> FAdd(FAdd(stock, bond), savings),
         contrib |-> FAdd(FAdd(prev.contrib, FOf(data.monthly_stock)),
                          FOf(data.monthly_savings))]

\* the body of the loop: row i from row i-1
NextRow(prev, data) ==
    LET stock == Grow(prev.stock, data.stock_return, data.monthly_stock)
        bond == Grow(prev.bond, data.bond_return, data.monthly_bond)
        savings == Grow(prev.savings, data.savings_return, data.monthly_savings)
    IN  [stock |-> stock,
         bond |-> bond,
         savings |-> savings,
         total |-> FAdd(FAdd(stock, bond), savings),
         contrib |-> FAdd(FAdd(FAdd(prev.contrib, FOf(data.monthly_stock)),
                               FOf(data.monthly_bond)),
                          FOf(data.monthly_savings))]

\* faulty variant of SimLoop: range(1, months), the final row is never assigned
RECURSIVE SimLoopStopsEarly(_, _, _, _)
SimLoopStopsEarly(df, data, i, months) ==
    IF i >= months THEN df
    ELSE SimLoopStopsEarly([df EXCEPT ![i] = NextRow(df[i - 1], data)],
                           data, i + 1, months)

\* for i in range(1, months + 1)
RECURSIVE SimLoop(_, _, _, _)
SimLoop(df, data, i, months) ==
    IF i > months THEN df
    ELSE SimLoop([df EXCEPT ![i] = NextRow(df[i - 1], data)], data, i + 1, months)

\* faulty variant of GainOf: the initial balances are not subtracted
GainOfWithoutInitial(row, data) == FSub(row.total, row.contrib)

\* df['運用益'] = df['総資産'] - df['積立合計'] - data['initial_total']
GainOf(row, data) == FSub(FSub(row.total, row.contrib), FOf(data.initial_total))

\* faulty variant of MonthRange: February always has 28 days
MonthRangeNoLeap(year, month) ==
    IF month = 2 THEN 28
    ELSE IF month \in {4, 6, 9, 11} THEN 30 ELSE 31

\* calendar.monthrange(year, month)[1]
IsLeap(year) == (year % 4 = 0) /\ ((year % 100 # 0) \/ (year % 400 = 0))
MonthRange(year, month) ==
    IF month = 2 THEN (IF IsLeap(year) THEN 29 ELSE 28)
    ELSE IF month \in {4, 6, 9, 11} THEN 30 ELSE 31

\* the date that follows current_date in date_index
NextDate(current_date) ==
    LET m == current_date.month + 1
        next_month == IF m > 12 THEN 1 ELSE m
        next_year == IF m > 12 THEN current_date.year + 1 ELSE current_date.year
    IN  [year |-> next_year, month |-> next_month,
         day |-> MonthRange(next_year, next_month), hour |-> 0]

\* date_index after the loop over range(months + 1)
RECURSIVE DateIndex(_, _)
DateIndex(start_date, i) ==
    IF i = 0 THEN start_date ELSE NextDate(DateIndex(start_date, i - 1))

\* strftime('%Y年%m月')
YearMonth(d) == <<d.year, d.month>>

\* add_date_columns(df, months) with datetime.now() = start_date
add_date_columns(df, months, start_date) ==
    [i \in DOMAIN df |->
        [stock |-> df[i].stock,
         bond |-> df[i].bond,
         savings |-> df[i].savings,
         total |-> df[i].total,
         contrib |-> df[i].contrib,
         gain |-> df[i].gain,
         date |-> DateIndex(start_date, i),
         ym |-> YearMonth(DateIndex(start_date, i))]]

\* the column 運用益 added to every row
WithGain(df, data) ==
    [i \in DOMAIN df |->
        [stock |-> df[i].stock,
         bond |-> df[i].bond,
         savings |-> df[i].savings,
         total |-> df[i].total,
         contrib |-> df[i].contrib,
         gain |-> GainOf(df[i], data)]]

\* run_simulation(data) up to the call of add_date_columns
Ledger(data) ==
    LET months == data.years * MonthsPerYear
    IN  WithGain(SimLoop([EmptyFrame(months) EXCEPT ![0] = InitialRow(data)],
                         data, 1, months),
                 data)

\* ------------------------------------------------------------------------
\* asset_planner.py, visualizations.py: visualize_data
\* ------------------------------------------------------------------------

\* faulty variant of ILocStep: df.iloc[step::step], row 0 is dropped
ILocStepSkipsFirst(df, step) == {i \in DOMAIN df : i % step = 0 /\ i >= step}

\* the row labels df.iloc[::step] keeps
ILocStep(df, step) == {i \in DOMAIN df : i % step = 0}

\* display_yearly_summary: yearly_data, indexed by 経過年数
yearly_summary(df) ==
    LET kept == ILocStep(df, MonthsPerYear)
    IN  [k \in {i \div MonthsPerYear : i \in kept} |->
            df[CHOOSE i \in kept : i \div MonthsPerYear = k]]

\* display_yearly_bar_chart: bar_data, still indexed by month, with the
\* column 経過年数
yearly_bar_data(df) ==
    [i \in ILocStep(df, MonthsPerYear) |->
        [row |-> df[i], elapsed |-> i \div MonthsPerYear]]

\* create_asset_growth_chart: the percentages of the current holdings, computed
\* only under current_total_assets > 0
growth_chart_percents(data) ==
    IF data.current_total_assets > 0
    THEN << [stock_percent |-> FDiv(FOf(data.current_stock * 100),
                                    FOf(data.current_total_assets)),
             bond_percent |-> FDiv(FOf(data.current_bond * 100),
                                   FOf(data.current_total_assets)),
             savings_percent |-> FDiv(FOf(data.current_savings * 100),
                                      FOf(data.current_total_assets))] >>
    ELSE <<>>

\* faulty variant of ProgressPoint: index[-1], the last row that reaches the total
ProgressPointLast(df, data) ==
    LET months == data.years * MonthsPerYear
        reached == {i \in DOMAIN df : FGe(df[i].total, FOf(data.current_total_assets))}
    IN  IF reached # {}
        THEN CHOOSE i \in reached : \A j \in reached : i >= j
        ELSE months

\* df[df['総資産'] >= current_total_assets].index[0] if any(...) else months
ProgressPoint(df, data) ==
    LET months == data.years * MonthsPerYear
        reached == {i \in DOMAIN df : FGe(df[i].total, FOf(data.current_total_assets))}
    IN  IF reached # {}
        THEN CHOOSE i \in reached : \A j \in reached : i <= j
        ELSE months

\* (current_total_assets / df.loc[months, '総資産']) * 100
ProgressPercentage(df, data) ==
    LET months == data.years * MonthsPerYear
        q == FDiv(FOf(data.current_total_assets), df[months].total)
    IN  [num |-> FMul(q.num, FOf(100)), den |-> q.den]

\* display_progress and display_asset_distribution_comparison
display_progress(df, data) ==
    LET months == data.years * MonthsPerYear
        progress_point == ProgressPoint(df, data)
    IN  [progress_point |-> progress_point,
         progress_years |-> FDiv(FOf(progress_point), FOf(MonthsPerYear)),
         progress_percentage |-> ProgressPercentage(df, data),
         current_values |->
             <<data.current_stock, data.current_bond, data.current_savings>>,
         final_values |->
             <<df[months].stock, df[months].bond, df[months].savings>>]

\* ------------------------------------------------------------------------
\* The program: main()
\* ------------------------------------------------------------------------

VARIABLES
    pc,            \* where main() stands
    config_file,   \* the file at CONFIG_PATH
    saved_config,  \* what load_config returned
    warned,        \* whether load_config called st.warning
    inputs,        \* the dict get_user_inputs returns
    data,          \* the dict transform_input_data returns
    df,            \* the DataFrame run_simulation returns
    now,           \* what datetime.now() returned to add_date_columns
    yearly_data,   \* display_yearly_summary's table
    bar_data,      \* display_yearly_bar_chart's table
    growth_chart,  \* the percentages create_asset_growth_chart annotates
    progress       \* what display_progress shows

vars == <<pc, config_file, saved_config, warned, inputs, data, df, now,
          yearly_data, bar_data, growth_chart, progress>>

\* a value not yet computed (None, or a name not yet bound)
Unset == <<>>

NoDoc == [type |-> "none", items |-> EmptyItems]

\* the states of the file at CONFIG_PATH the model starts from: no file; a file
\* that cannot be opened or decoded; a file that is not JSON; a JSON document
\* that is not an object; an object with one key; an object as save_config
\* writes it
ConfigFiles ==
    {[kind |-> "absent", doc |-> NoDoc],
     [kind |-> "unreadable", doc |-> NoDoc],
     [kind |-> "not_json", doc |-> NoDoc],
     [kind |-> "json", doc |-> JsonList],
     [kind |-> "json", doc |-> JsonDict([k \in {"years"} |-> 1])],
     [kind |-> "json",
      doc |-> JsonDict([k \in ConfigKeys |->
                 CASE k = "years" -> 2
                   [] k = "monthly_stock_man" -> 2 * ManScale
                   [] k = "stock_return_percent" -> 3 * PctScale
                   [] k = "current_stock_man" -> 10 * ManScale
                   [] OTHER -> 0])]}

\* the values datetime.now() takes in the model: the last day of a month
\* before a leap-year February, and a day before a year change
StartDates ==
    {[year |-> 2024, month |-> 1, day |-> 31, hour |-> 9],
     [year |-> 2023, month |-> 12, day |-> 15, hour |-> 9]}

Init ==
    /\ pc = "start"
    /\ config_file \in ConfigFiles
    /\ saved_config = Unset
    /\ warned = FALSE
    /\ inputs = Unset
    /\ data = Unset
    /\ df = Unset
    /\ now = Unset
    /\ yearly_data = Unset
    /\ bar_data = Unset
    /\ growth_chart = Unset
    /\ progress = Unset

\* saved_config = load_config(CONFIG_PATH)
LoadConfig ==
    /\ pc = "start"
    /\ saved_config' = load_config(config_file).ret
    /\ warned' = load_config(config_file).warned
    /\ pc' = "loaded"
    /\ UNCHANGED <<config_file, inputs, data, df, now, yearly_data, bar_data,
                   growth_chart, progress>>

\* input_values = get_user_inputs(saved_config): saved_config.get raises
\* AttributeError when saved_config is not a dict; otherwise every widget
\* returns its default or what the user set, and the save button may be pressed
GetUserInputs ==
    /\ pc = "loaded"
    /\ \/ /\ saved_config.type # "dict"
          /\ pc' = "crashed"
          /\ UNCHANGED <<config_file, inputs>>
       \/ /\ saved_config.type = "dict"
          /\ \E w \in UserChoices \cup {WidgetDefaults(saved_config)} :
               /\ WidgetRange(w)
               /\ w.years <= MaxYears
               /\ inputs' = InputsOf(w)
               /\ \E button \in BOOLEAN :
                    config_file' = IF button THEN save_config(ConfigOf(InputsOf(w)))
                                   ELSE config_file
          /\ pc' = "inputs"
    /\ UNCHANGED <<saved_config, warned, data, df, now, yearly_data, bar_data,
                   growth_chart, progress>>

\* transformed_data = transform_input_data(input_values)
TransformInputData ==
    /\ pc = "inputs"
    /\ data' = transform_input_data(inputs)
    /\ pc' = "transformed"
    /\ UNCHANGED <<config_file, saved_config, warned, inputs, df, now,
                   yearly_data, bar_data, growth_chart, progress>>

\* df = run_simulation(transformed_data)
RunSimulation ==
    /\ pc = "transformed"
    /\ LET ledger == Ledger(data)
       IN  \E start_date \in StartDates :
               /\ now' = start_date
               /\ df' = add_date_columns(ledger, data.years * MonthsPerYear, start_date)
    /\ pc' = "simulated"
    /\ UNCHANGED <<config_file, saved_config, warned, inputs, data, yearly_data,
                   bar_data, growth_chart, progress>>

\* visualize_data(df, transformed_data, input_values)
VisualizeData ==
    /\ pc = "simulated"
    /\ growth_chart' = growth_chart_percents(data)
    /\ yearly_data' = yearly_summary(df)
    /\ bar_data' = yearly_bar_data(df)
    /\ progress' = IF data.current_total_assets > 0
                   THEN <<display_progress(df, data)>>
                   ELSE <<>>
    /\ pc' = "visualized"
    /\ UNCHANGED <<config_file, saved_config, warned, inputs, data, df, now>>

\* provide_data_download(df)
ProvideDataDownload ==
    /\ pc = "visualized"
    /\ pc' = "done"
    /\ UNCHANGED <<config_file, saved_config, warned, inputs, data, df, now,
                   yearly_data, bar_data, growth_chart, progress>>

Next ==
    \/ LoadConfig
    \/ GetUserInputs
    \/ TransformInputData
    \/ RunSimulation
    \/ VisualizeData
    \/ ProvideDataDownload

Spec == Init /\ [][Next]_vars

\* ------------------------------------------------------------------------
\* The engine called directly: transform_input_data and run_simulation applied
\* to an inputs dict no widget has clamped
\* ------------------------------------------------------------------------

EngineInputs ==
    [years : {0, 1},
     monthly_stock_man : {-ManScale, 0, 3 * ManScale},
     monthly_bond_man : {0},
     monthly_savings_man : {0},
     stock_return : {PercentToRate(-5 * PctScale), PercentToRate(5 * PctScale)},
     bond_return : {PercentToRate(1 * PctScale)},
     savings_return : {0},
     initial_stock_man : {-5, 0, 100 * ManScale},
     initial_bond_man : {0},
     initial_savings_man : {0},
     current_stock_man : {0},
     current_bond_man : {0},
     current_savings_man : {0}]

InitEngine ==
    /\ pc = "inputs"
    /\ config_file = [kind |-> "absent", doc |-> NoDoc]
    /\ saved_config = Unset
    /\ warned = FALSE
    /\ inputs \in EngineInputs
    /\ data = Unset
    /\ df = Unset
    /\ now = Unset
    /\ yearly_data = Unset
    /\ bar_data = Unset
    /\ growth_chart = Unset
    /\ progress = Unset

NextEngine ==
    \/ TransformInputData
    \/ RunSimulation

SpecEngine == InitEngine /\ [][NextEngine]_vars

\* ------------------------------------------------------------------------
\* Properties
\* ------------------------------------------------------------------------

\* run_simulation has returned: df is the ledger
HasLedger == pc \in {"simulated", "visualized", "done"}
\* visualize_data has returned
HasViews == pc \in {"visualized", "done"}

Months == data.years * MonthsPerYear
Classes == {"stock", "bond", "savings"}
RateOf(c) ==
    CASE c = "stock" -> data.stock_return
      [] c = "bond" -> data.bond_return
      [] c = "savings" -> data.savings_return
MonthlyOf(c) ==
    CASE c = "stock" -> data.monthly_stock
      [] c = "bond" -> data.monthly_bond
      [] c = "savings" -> data.monthly_savings
InitialOf(c) ==
    CASE c = "stock" -> data.initial_stock
      [] c = "bond" -> data.initial_bond
      [] c = "savings" -> data.initial_savings

\* C1: for every month i in 1..years*12 and every class c,
\* balance[i][c] = balance[i-1][c] * (1 + rate[c]/12) + contribution[c]: growth is
\* applied to the previous balance only and the contribution is added afterwards.
\* Stated with both sides multiplied by RateBase (= 12 / rate unit):
\* balance[i] * RateBase = balance[i-1] * (RateBase + rate) + contribution * RateBase
C1_Recurrence ==
    pc = "simulated" =>
        \A i \in 1..Months : \A c \in Classes :
            FCmp(FMul(df[i][c], FOf(RateBase)),
                 FAdd(FMul(df[i - 1][c], FOf(RateBase + RateOf(c))),
                      FMul(FOf(MonthlyOf(c)), FOf(RateBase)))) = 0

\* a ledger of two years with a negative stock rate, a positive stock balance
\* and a positive stock contribution
C1_Witness ==
    /\ pc = "simulated"
    /\ data.years = 2
    /\ data.stock_return < 0
    /\ data.monthly_stock > 0
    /\ data.initial_stock > 0
    /\ FCmp(df[24].stock, df[23].stock) # 0

\* C2: for valid parameters the ledger has exactly years*12 + 1 rows, indexed
\* 0, 1, ..., years*12, and every cell of every row holds a value
C2_Shape ==
    HasLedger =>
        /\ DOMAIN df = 0..(inputs.years * MonthsPerYear)
        /\ Cardinality(DOMAIN df) = inputs.years * MonthsPerYear + 1
        /\ \A i \in DOMAIN df :
              /\ DOMAIN df[i] =
                    {"stock", "bond", "savings", "total", "contrib", "gain",
                     "date", "ym"}
              /\ \A col \in {"stock", "bond", "savings", "total", "contrib", "gain"} :
                    ~IsNaN(df[i][col])
              /\ df[i].date.month \in 1..12
              /\ df[i].date.day \in 1..31

C2_Witness ==
    /\ pc = "simulated"
    /\ inputs.years = 2
    /\ Cardinality(DOMAIN df) = 25
    /\ ~IsNaN(df[24].gain)

\* C3: row 0 holds the converted initial balances, cumulative contributions 0,
\* total = the total initial balance and gain 0: no contribution and no return
\* is applied at month 0
C3_Snapshot0 ==
    HasLedger =>
        /\ \A c \in Classes : FCmp(df[0][c], FOf(InitialOf(c))) = 0
        /\ FCmp(df[0].contrib, FOf(0)) = 0
        /\ FCmp(df[0].total, FOf(data.initial_total)) = 0
        /\ FCmp(df[0].gain, FOf(0)) = 0

C3_Witness ==
    /\ pc = "simulated"
    /\ data.initial_stock > 0
    /\ data.monthly_stock > 0
    /\ data.stock_return # 0
    /\ FCmp(df[0].stock, FOf(1000000)) = 0

\* C4: in every row, total = stock + bond + savings and
\* gain = total - contrib - initial_total, where initial_total is the sum of the
\* three converted initial balances
C4_TotalsAndGain ==
    HasLedger =>
        /\ data.initial_total
              = data.initial_stock + data.initial_bond + data.initial_savings
        /\ \A i \in DOMAIN df :
              /\ FCmp(df[i].total,
                      FAdd(df[i].stock, FAdd(df[i].bond, df[i].savings))) = 0
              /\ FCmp(FAdd(df[i].gain,
                           FAdd(df[i].contrib,
                                FOf(data.initial_stock + data.initial_bond
                                    + data.initial_savings))),
                      df[i].total) = 0

\* a ledger with a positive initial balance whose final gain is negative
C4_Witness ==
    /\ pc = "simulated"
    /\ data.initial_total > 0
    /\ data.monthly_bond > 0
    /\ FCmp(df[Months].gain, FOf(0)) < 0

\* C5: cumulative contributions are i * (sum of the three monthly
\* contributions) in row i; they never decrease, and they increase at every step
\* unless the three contributions are all 0
C5_Contributions ==
    HasLedger =>
        LET sum == data.monthly_stock + data.monthly_bond + data.monthly_savings
        IN  /\ \A i \in DOMAIN df : FCmp(df[i].contrib, FOf(i * sum)) = 0
            /\ \A i \in 1..Months :
                  /\ FCmp(df[i].contrib, df[i - 1].contrib) >= 0
                  /\ (sum > 0) => FCmp(df[i].contrib, df[i - 1].contrib) > 0
                  /\ (sum = 0) => FCmp(df[i].contrib, df[i - 1].contrib) = 0

\* two classes contribute, at a non-zero rate and from a positive balance
C5_Witness ==
    /\ pc = "simulated"
    /\ data.monthly_stock > 0
    /\ data.monthly_bond > 0
    /\ data.stock_return # 0
    /\ data.initial_stock > 0
    /\ FCmp(df[Months].contrib, FOf(0)) > 0

\* C6: the yearly tables hold exactly years + 1 entries, for the elapsed years
\* 0..years; the entry of elapsed year k has the values of row 12k of the ledger
\* (the last one those of the final row); building them leaves the ledger as
\* it was
C6_YearlyRollup ==
    [][pc' = "visualized" =>
          /\ df' = df
          /\ DOMAIN yearly_data' = 0..inputs.years
          /\ Cardinality(DOMAIN yearly_data') = inputs.years + 1
          /\ \A k \in 0..inputs.years : yearly_data'[k] = df[12 * k]
          /\ yearly_data'[inputs.years] = df[inputs.years * 12]
          /\ DOMAIN bar_data' = {12 * k : k \in 0..inputs.years}
          /\ \A k \in 0..inputs.years :
                /\ bar_data'[12 * k].elapsed = k
                /\ bar_data'[12 * k].row = df[12 * k]]_vars

\* the tables of a two-year ledger whose rows differ from year to year
C6_Witness ==
    /\ pc = "visualized"
    /\ inputs.years = 2
    /\ Cardinality(DOMAIN yearly_data) = 3
    /\ yearly_data[1] = df[12]
    /\ yearly_data[2] = df[24]
    /\ FCmp(df[12].total, df[24].total) # 0
    /\ FCmp(df[12].total, df[11].total) # 0

\* whether row i reaches the current actual total
Reaches(i) == FCmp(df[i].total, FOf(data.current_total_assets)) >= 0

\* the first row that reaches the current actual total, the final row if none
FirstReached(p) ==
    /\ p \in 0..Months
    /\ \A j \in 0..(p - 1) : ~Reaches(j)
    /\ Reaches(p) \/ p = Months

PercentsAllZero(chart) ==
    /\ Len(chart) = 1
    /\ \A k \in {"stock_percent", "bond_percent", "savings_percent"} :
          IsFinite(chart[1][k]) /\ FCmp(chart[1][k].num, FOf(0)) = 0

C8_NoZeroDenominator ==
    HasViews =>
        /\ Len(progress) = 1 =>
              /\ ~IsInf(progress[1].progress_percentage)
              /\ FCmp(df[Months].total, FOf(0)) = 0 =>
                    FCmp(progress[1].progress_percentage.den, FOf(0)) # 0
        /\ Len(growth_chart) = 1 =>
              \A k \in {"stock_percent", "bond_percent", "savings_percent"} :
                  IsFinite(growth_chart[1][k])

\* the domain of the inputs: years in 1..50, no negative amount
ValidInputs(in) ==
    /\ in.years \in 1..50
    /\ \A k \in {"monthly_stock_man", "monthly_bond_man", "monthly_savings_man",
                "initial_stock_man", "initial_bond_man", "initial_savings_man",
                "current_stock_man", "current_bond_man", "current_savings_man"} :
          in[k] >= 0

\* C9: transform_input_data rejects years outside 1..50 and negative amounts:
\* it returns no data for them and no ledger is built from them
C9_RejectsOutOfDomain ==
    (pc \in {"transformed", "simulated"}) => ValidInputs(inputs)

\* the file at CONFIG_PATH holds no usable configuration
Malformed(file) ==
    \/ file.kind \in {"unreadable", "not_json"}
    \/ file.kind = "json" /\ file.doc.type # "dict"

\* C10: whatever the file at CONFIG_PATH holds, nothing fails: a malformed
\* file makes load_config warn and return the empty configuration, so that the
\* widgets take the built-in defaults, and main() goes on to the simulation
C10_MalformedConfigRecovered ==
    /\ pc # "crashed"
    /\ (pc = "loaded" /\ Malformed(config_file)) =>
          /\ saved_config = JsonDict(EmptyItems)
          /\ warned
          /\ WidgetDefaults(saved_config).years = 30

\* the Gregorian calendar: the number of days of a month
DaysInMonth(year, month) ==
    LET table == <<31, 28, 31, 30, 31, 30, 31, 31, 30, 31, 30, 31>>
        leap == (year % 400 = 0) \/ (year % 4 = 0 /\ year % 100 # 0)
    IN  IF month = 2 /\ leap THEN 29 ELSE table[month]

\* the calendar months counted from January of year 0
MonthNumber(d) == d.year * 12 + (d.month - 1)

\* a < b for two datetime values
DateLess(a, b) ==
    \/ a.year < b.year
    \/ a.year = b.year /\ a.month < b.month
    \/ a.year = b.year /\ a.month = b.month /\ a.day < b.day
    \/ a.year = b.year /\ a.month = b.month /\ a.day = b.day /\ a.hour < b.hour

\* C11: the date of row 0 is datetime.now() unmodified; for every i in
\* 1..years*12 the date of row i is the last day of the calendar month i months
\* after the month of the start date, whatever the start date's day of month
\* (leap-year February and the change of year included); hence the dates are
\* strictly increasing and consecutive rows fall in consecutive calendar months
C11_Dates ==
    HasLedger =>
        /\ df[0].date = now
        /\ \A i \in 1..Months :
              LET m == MonthNumber(now) + i
                  y == m \div 12
                  mo == (m % 12) + 1
              IN  /\ df[i].date.year = y
                  /\ df[i].date.month = mo
                  /\ df[i].date.day = DaysInMonth(y, mo)
        /\ \A i \in 1..Months :
              /\ DateLess(df[i - 1].date, df[i].date)
              /\ MonthNumber(df[i].date) = MonthNumber(df[i - 1].date) + 1

\* a run started on 15 December 2023: row 0 keeps the 15th, row 1 is
\* 31 January 2024 and row 2 is 29 February 2024
C11_Witness ==
    /\ pc = "simulated"
    /\ now.day = 15
    /\ df[0].date.day = 15
    /\ df[1].date.year = now.year + 1
    /\ df[1].date.month = 1
    /\ df[2].date.month = 2
    /\ df[2].date.day = 29
    /\ df[Months].date.month = 12

\* the three annual rates are >= 0
NonNegativeRates == \A c \in Classes : RateOf(c) >= 0

\* the contributions and the initial balances are >= 0
NonNegativeAmounts == \A c \in Classes : MonthlyOf(c) >= 0 /\ InitialOf(c) >= 0

\* C12: with the three annual rates >= 0 and contributions and initial balances
\* >= 0, every class balance and the total never decrease from one month to the
\* next and the gain of every row is >= 0; a negative gain in row i, or a total
\* that drops from row i-1 to row i, occurs only when some class has a negative
\* rate and held a positive balance in an earlier row
C12_Monotone ==
    HasLedger =>
        /\ (NonNegativeRates /\ NonNegativeAmounts) =>
              /\ \A i \in 1..Months :
                    /\ \A c \in Classes : FCmp(df[i][c], df[i - 1][c]) >= 0
                    /\ FCmp(df[i].total, df[i - 1].total) >= 0
              /\ \A i \in DOMAIN df : FCmp(df[i].gain, FOf(0)) >= 0
        /\ NonNegativeAmounts =>
              \A i \in DOMAIN df :
                  (\/ FCmp(df[i].gain, FOf(0)) < 0
                   \/ (i >= 1 /\ FCmp(df[i].total, df[i - 1].total) < 0))
                  => \E c \in Classes :
                        /\ RateOf(c) < 0
                        /\ \E j \in 0..(i - 1) : FCmp(df[j][c], FOf(0)) > 0

\* a ledger with rates >= 0, a positive stock rate and a positive initial stock
\* balance: the total grows in the first month and the final gain is positive
C12_Witness ==
    /\ pc = "simulated"
    /\ NonNegativeRates
    /\ data.stock_return > 0
    /\ data.initial_stock > 0
    /\ data.monthly_bond > 0
    /\ FCmp(df[1].total, df[0].total) > 0
    /\ FCmp(df[Months].gain, FOf(0)) > 0

=============================================================================
